---- MODULE Spec2Model ----
(***************************************************************************)
(* Model of pre_commit_hooks/branch_check.py: one run of main().           *)
(*                                                                         *)
(* Strings are sequences of tokens.  A token is either a separator ("/",   *)
(* the newline NL) or a word that contains no separator, so that           *)
(* str.startswith, str.split('/'), '/'.join, str.strip and re.match are    *)
(* computed over the token sequence the way Python computes them over the  *)
(* characters.                                                             *)
(***************************************************************************)
EXTENDS Integers, Sequences, FiniteSets, TLC

NL == "\n"
Slash == "/"

\* Values that are not strings.
None == <<"<None>">>                    \* os.environ.get / argparse default
Unbound == <<"<unbound>">>              \* a local variable not yet assigned
CalledProcessError == <<"<CalledProcessError>">>   \* git exited non-zero

------------------------------------------------------------------------------
(* Bounds of the explored inputs.                                          *)

MaxAllow == 2       \* number of --allow options on the command line
MaxDeny == 1        \* number of --deny options on the command line
MaxRefLen == 7      \* tokens of a name-rev output (second specification)

------------------------------------------------------------------------------
(* String helpers (Python str methods).                                    *)

StartsWith(s, prefix) ==
    /\ Len(s) >= Len(prefix)
    /\ SubSeq(s, 1, Len(prefix)) = prefix

\* str.strip(): drop leading and trailing whitespace
RECURSIVE LStrip(_)
LStrip(s) == IF s # <<>> /\ Head(s) = NL THEN LStrip(Tail(s)) ELSE s

RECURSIVE RStrip(_)
RStrip(s) ==
    IF s # <<>> /\ s[Len(s)] = NL THEN RStrip(SubSeq(s, 1, Len(s) - 1)) ELSE s

Strip(s) == RStrip(LStrip(s))

\* str.split('/'): the list of the segments between the separators
RECURSIVE Split(_)
Split(s) ==
    IF \A i \in 1..Len(s) : s[i] # Slash
    THEN <<s>>
    ELSE LET i == CHOOSE k \in 1..Len(s) :
                     s[k] = Slash /\ \A j \in 1..(k - 1) : s[j] # Slash
         IN <<SubSeq(s, 1, i - 1)>> \o Split(SubSeq(s, i + 1, Len(s)))

\* '/'.join(chunks)
RECURSIVE Join(_)
Join(chunks) ==
    IF chunks = <<>> THEN <<>>
    ELSE IF Len(chunks) = 1 THEN chunks[1]
    ELSE chunks[1] \o <<Slash>> \o Join(Tail(chunks))

\* chunks[2:]
DropTwo(chunks) == SubSeq(chunks, 3, Len(chunks))

\* variant: keep only the last segment
StripRefPrefixToLast(ref_name) == <<Split(ref_name)[Len(Split(ref_name))]>>

\* prefix stripping of the name-rev fallback: chunks[2:] of the split name
StripRefPrefix(ref_name) == DropTwo(Split(ref_name))

HasRefPrefix(ref_name) ==
    \/ StartsWith(ref_name, <<"remotes", Slash>>)
    \/ StartsWith(ref_name, <<"refs", Slash>>)

------------------------------------------------------------------------------
(* Regular expressions (the re module), over tokens.                       *)

\* tokens matched by the character classes of the default patterns
Words == {"main", "master", "develop", "feature", "bugfix", "hotfix",
          "release", "chore", "x", "zzz", "origin", "heads", "tags",
          "refs", "remotes"}
ClassAlnum == Words                                \* [a-z0-9]
ClassBody == Words \cup {Slash, ".", "-"}          \* [a-z0-9/.-]

Lit(w) == [t |-> "lit", c |-> {w}, xs |-> <<>>]
Class(ws) == [t |-> "lit", c |-> ws, xs |-> <<>>]
Bol == [t |-> "bol", c |-> {}, xs |-> <<>>]
Eol == [t |-> "eol", c |-> {}, xs |-> <<>>]
Cat(rs) == [t |-> "seq", c |-> {}, xs |-> rs]
Alt(rs) == [t |-> "alt", c |-> {}, xs |-> rs]
Star(r) == [t |-> "star", c |-> {}, xs |-> <<r>>]
ReError == [t |-> "error", c |-> {}, xs |-> <<>>]

PatConventional == "^(feature|bugfix|hotfix|release|chore)/[a-z0-9/.-]*[a-z0-9]$"
PatTrunk == "^(main|master|develop)$"
PatMainMaster == "^(main|master)$"
PatMain == "main"
PatBad == "("

\* re.compile: the parsed pattern, ReError when the pattern does not parse
ReCompile(pattern) ==
    CASE pattern = PatConventional ->
            Cat(<<Bol,
                  Alt(<<Lit("feature"), Lit("bugfix"), Lit("hotfix"),
                        Lit("release"), Lit("chore")>>),
                  Lit(Slash), Star(Class(ClassBody)), Class(ClassAlnum),
                  Eol>>)
      [] pattern = PatTrunk ->
            Cat(<<Bol, Alt(<<Lit("main"), Lit("master"), Lit("develop")>>),
                  Eol>>)
      [] pattern = PatMainMaster ->
            Cat(<<Bol, Alt(<<Lit("main"), Lit("master")>>), Eol>>)
      [] pattern = PatMain -> Lit("main")
      [] OTHER -> ReError

IsValidRegex(pattern) == ReCompile(pattern).t # "error"

\* The positions of s at which a match of r can end when it starts at one of
\* the positions of P (positions are 0..Len(s)).
RECURSIVE Ends(_, _, _)
RECURSIVE EndsSeq(_, _, _)
RECURSIVE EndsStar(_, _, _)
Ends(r, s, P) ==
    CASE r.t = "lit" -> {i + 1 : i \in {j \in P : j < Len(s) /\ s[j + 1] \in r.c}}
      [] r.t = "bol" -> P \cap {0}
      [] r.t = "eol" -> {i \in P : \/ i = Len(s)
                                   \/ i = Len(s) - 1 /\ s[Len(s)] = NL}
      [] r.t = "seq" -> EndsSeq(r.xs, s, P)
      [] r.t = "alt" -> UNION {Ends(r.xs[k], s, P) : k \in DOMAIN r.xs}
      [] r.t = "star" -> EndsStar(r.xs[1], s, P)
      [] OTHER -> {}
EndsSeq(rs, s, P) ==
    IF rs = <<>> THEN P ELSE EndsSeq(Tail(rs), s, Ends(Head(rs), s, P))
EndsStar(r, s, P) ==
    LET Q == P \cup Ends(r, s, P)
    IN IF Q = P THEN P ELSE EndsStar(r, s, Q)

\* variant: re.fullmatch(pattern, string)
ReMatchWholeString(pattern, string) ==
    Len(string) \in Ends(ReCompile(pattern), string, {0})

\* re.match(pattern, string) of a valid pattern: a match that starts at the
\* start of the string and may end anywhere
ReMatch(pattern, string) ==
    Ends(ReCompile(pattern), string, {0}) # {}

\* any(re.match(pattern, name) for pattern in patterns), evaluated from
\* pattern number i on: the generator stops at the first match, and an
\* invalid pattern raises re.error when its turn comes.
\* result: "true" | "false" | "error"; calls: the patterns handed to re.match
RECURSIVE AnyMatchFrom(_, _, _, _)
AnyMatchFrom(patterns, name, i, calls) ==
    IF i > Len(patterns) THEN [result |-> "false", calls |-> calls]
    ELSE IF ~IsValidRegex(patterns[i])
    THEN [result |-> "error", calls |-> Append(calls, patterns[i])]
    ELSE IF ReMatch(patterns[i], name)
    THEN [result |-> "true", calls |-> Append(calls, patterns[i])]
    ELSE AnyMatchFrom(patterns, name, i + 1, Append(calls, patterns[i]))

AnyMatch(patterns, name) == AnyMatchFrom(patterns, name, 1, <<>>)

------------------------------------------------------------------------------
(* The inputs of a run: command line, environment, git.                    *)

\* variant: the list in the opposite order
ci_branch_env_vars_reversed ==
    <<"BITBUCKET_BRANCH", "CI_MERGE_REQUEST_SOURCE_BRANCH_NAME",
      "GITHUB_HEAD_REF">>

\* the CI variables, in the order get_forge_branch() reads them
ci_branch_env_vars ==
    <<"GITHUB_HEAD_REF", "CI_MERGE_REQUEST_SOURCE_BRANCH_NAME",
      "BITBUCKET_BRANCH">>

CiVarNames == {ci_branch_env_vars[i] : i \in DOMAIN ci_branch_env_vars}

\* the value a CI system may give each variable (besides unset and empty)
CiValue(v) ==
    CASE v = "GITHUB_HEAD_REF" -> <<"hotfix", Slash, "x">>
      [] v = "CI_MERGE_REQUEST_SOURCE_BRANCH_NAME" -> <<"main">>
      [] OTHER -> <<"zzz">>

Environments ==
    {e \in [CiVarNames -> {None, <<>>, CiValue("GITHUB_HEAD_REF"),
                           CiValue("CI_MERGE_REQUEST_SOURCE_BRANCH_NAME"),
                           CiValue("BITBUCKET_BRANCH")}] :
        \A v \in CiVarNames : e[v] \in {None, <<>>, CiValue(v)}}

\* what `git symbolic-ref --short HEAD` prints on an attached HEAD
SymbolicRefOutputs ==
    { <<"main", NL>>,
      <<"feature", Slash, "x", NL>>,
      <<"main", Slash, "x", NL>>,
      <<"zzz", NL>>,
      <<NL>> }

\* what `git name-rev --name-only HEAD` prints on a detached HEAD
NameRevOutputs ==
    { <<"master", NL>>,
      <<"tags", Slash, "x", NL>>,
      <<"refs", Slash, "heads", NL>>,
      <<"refs", Slash, "heads", Slash, "feature", Slash, "x", NL>>,
      <<"remotes", Slash, "origin", Slash, "feature", Slash, "x", NL>>,
      <<"remotes", Slash, "origin", Slash, "main", NL>>,
      <<"refs", Slash, "remotes", Slash, "origin", Slash, "main", NL>>,
      <<NL>> }

\* present: a git executable is on the search path;
\* symbolic_ref, name_rev: the output of the subcommand, or its failure
GitStates ==
    {[present |-> FALSE, symbolic_ref |-> CalledProcessError,
      name_rev |-> CalledProcessError]}
    \cup {[present |-> TRUE, symbolic_ref |-> o, name_rev |-> o] :
             o \in SymbolicRefOutputs}
    \cup {[present |-> TRUE, symbolic_ref |-> CalledProcessError,
           name_rev |-> o] : o \in NameRevOutputs \cup {CalledProcessError}}

\* the patterns a user passes on the command line
UserPatterns == {PatMain, PatMainMaster, PatBad}

RECURSIVE SeqsUpTo(_, _)
SeqsUpTo(S, n) ==
    IF n = 0 THEN {<<>>}
    ELSE LET shorter == SeqsUpTo(S, n - 1)
         IN shorter \cup {Append(q, x) : q \in shorter, x \in S}

RECURSIVE OptionArgs(_, _, _)
OptionArgs(short, long, values) ==
    IF values = <<>> THEN <<>>
    ELSE <<IF Len(values) % 2 = 1 THEN long ELSE short, Head(values)>>
         \o OptionArgs(short, long, Tail(values))

CommandLines ==
    {OptionArgs("-a", "--allow", a) \o OptionArgs("-d", "--deny", d) \o x :
        a \in SeqsUpTo(UserPatterns, MaxAllow),
        d \in SeqsUpTo(UserPatterns, MaxDeny),
        x \in {<<>>, <<"--bogus">>}}

------------------------------------------------------------------------------
(* State.                                                                  *)

VARIABLES
    argv,                       \* sys.argv[1:]
    environ,                    \* os.environ, the CI variables
    git,                        \* the git executable and the repository
    DEFAULT_ALLOWED_PATTERNS,   \* module globals
    DEFAULT_DENIED_PATTERNS,
    pc,                         \* position of the run
    allow_patterns,             \* locals of main()
    deny_patterns,
    branch_name,
    gbn_branch_name,            \* locals of get_branch_name(): its own
    ref_name,                   \* branch_name, and ref_name
    git_calls,                  \* git subcommands invoked so far
    re_calls,                   \* <<list, pattern>> handed to re.match so far
    stdout,                     \* printed messages
    stderr,                     \* "usage" or "traceback"
    exception,                  \* the uncaught exception that ended the run
    exit_code                   \* exit status of the process, -1 while running

vars == <<argv, environ, git, DEFAULT_ALLOWED_PATTERNS,
          DEFAULT_DENIED_PATTERNS, pc, allow_patterns, deny_patterns,
          branch_name, gbn_branch_name, ref_name, git_calls, re_calls,
          stdout, stderr, exception, exit_code>>

inputs == <<argv, environ, git>>
globals == <<DEFAULT_ALLOWED_PATTERNS, DEFAULT_DENIED_PATTERNS>>

Running == -1

Message(kind, name, patterns) ==
    [kind |-> kind, name |-> name, patterns |-> patterns]

InitLocals ==
    /\ DEFAULT_ALLOWED_PATTERNS = <<PatConventional, PatTrunk>>
    /\ DEFAULT_DENIED_PATTERNS = <<>>
    /\ pc = "parse_args"
    /\ allow_patterns = Unbound
    /\ deny_patterns = Unbound
    /\ branch_name = Unbound
    /\ gbn_branch_name = Unbound
    /\ ref_name = Unbound
    /\ git_calls = <<>>
    /\ re_calls = <<>>
    /\ stdout = <<>>
    /\ stderr = <<>>
    /\ exception = "none"
    /\ exit_code = Running

Init ==
    /\ argv \in CommandLines
    /\ environ \in Environments
    /\ git \in GitStates
    /\ InitLocals

------------------------------------------------------------------------------
(* Operations.                                                             *)

\* argparse: two repeatable options with action='append'; anything else on
\* the command line is a usage error.  allow, deny: None until the option is
\* seen for the first time.
RECURSIVE parse_args(_, _, _)
parse_args(args, allow, deny) ==
    IF args = <<>> THEN [ok |-> TRUE, allow |-> allow, deny |-> deny]
    ELSE IF Head(args) \in {"-a", "--allow"} /\ Len(args) >= 2
    THEN parse_args(SubSeq(args, 3, Len(args)),
                    Append(IF allow = None THEN <<>> ELSE allow, args[2]),
                    deny)
    ELSE IF Head(args) \in {"-d", "--deny"} /\ Len(args) >= 2
    THEN parse_args(SubSeq(args, 3, Len(args)),
                    allow,
                    Append(IF deny = None THEN <<>> ELSE deny, args[2]))
    ELSE [ok |-> FALSE, allow |-> allow, deny |-> deny]

\* variant: action='append' on top of a default list
OrDefaultAppend(given, default) ==
    IF given = None THEN default ELSE given \o default

\* `given or default`
OrDefault(given, default) ==
    IF given = None \/ given = <<>> THEN default ELSE given

\* get_forge_branch(): the first CI variable, from number i on, that is set
\* and not empty; '' when there is none
RECURSIVE ForgeBranchFrom(_, _, _)
ForgeBranchFrom(env, names, i) ==
    IF i > Len(names) THEN <<>>
    ELSE IF env[names[i]] # None /\ env[names[i]] # <<>>
    THEN env[names[i]]
    ELSE ForgeBranchFrom(env, names, i + 1)

get_forge_branch(env) == ForgeBranchFrom(env, ci_branch_env_vars, 1)

\* An exception leaves main() uncaught: traceback, exit status 1.
Crash(name) ==
    /\ pc' = "done"
    /\ exception' = name
    /\ stderr' = Append(stderr, "traceback")
    /\ exit_code' = 1

\* main() prints a message and returns a status.
Return(message, status) ==
    /\ pc' = "done"
    /\ stdout' = Append(stdout, message)
    /\ exit_code' = status
    /\ UNCHANGED <<stderr, exception>>

\* main(), lines 89-110
ParseArgs ==
    /\ pc = "parse_args"
    /\ LET args == parse_args(argv, None, None)
       IN IF ~args.ok
          THEN /\ pc' = "done"
               /\ stderr' = Append(stderr, "usage")
               /\ exit_code' = 2
               /\ UNCHANGED <<allow_patterns, deny_patterns>>
          ELSE /\ pc' = "get_forge_branch"
               /\ allow_patterns' = OrDefault(args.allow, DEFAULT_ALLOWED_PATTERNS)
               /\ deny_patterns' = OrDefault(args.deny, DEFAULT_DENIED_PATTERNS)
               /\ UNCHANGED <<stderr, exit_code>>
    /\ UNCHANGED <<inputs, globals, branch_name, gbn_branch_name, ref_name,
                   git_calls, re_calls, stdout, exception>>

\* main(), lines 114-116
GetForgeBranch ==
    /\ pc = "get_forge_branch"
    /\ branch_name' = get_forge_branch(environ)
    /\ pc' = IF branch_name' = <<>> THEN "symbolic_ref" ELSE "check_allowed"
    /\ UNCHANGED <<inputs, globals, allow_patterns, deny_patterns,
                   gbn_branch_name, ref_name, git_calls, re_calls, stdout,
                   stderr, exception, exit_code>>

\* get_branch_name(), lines 49-55
SymbolicRef ==
    /\ pc = "symbolic_ref"
    /\ git_calls' = Append(git_calls, "symbolic-ref")
    /\ IF ~git.present
       THEN /\ Crash("FileNotFoundError")
            /\ UNCHANGED <<gbn_branch_name, stdout>>
       ELSE IF git.symbolic_ref = CalledProcessError
       THEN /\ pc' = "name_rev"
            /\ UNCHANGED <<gbn_branch_name, stdout, stderr, exception,
                           exit_code>>
       ELSE /\ pc' = "check_name"
            /\ gbn_branch_name' = Strip(git.symbolic_ref)
            /\ UNCHANGED <<stdout, stderr, exception, exit_code>>
    /\ UNCHANGED <<inputs, globals, allow_patterns, deny_patterns,
                   branch_name, ref_name, re_calls>>

\* get_branch_name(), lines 56-67, and the handler of main(), lines 117-119
\* (git is present here: without it SymbolicRef has ended the run)
NameRev ==
    /\ pc = "name_rev"
    /\ git_calls' = Append(git_calls, "name-rev")
    /\ IF git.name_rev = CalledProcessError
       THEN /\ Return(Message("not_a_repository", <<>>, <<>>), 1)
            /\ UNCHANGED <<gbn_branch_name, ref_name>>
       ELSE /\ pc' = "check_name"
            /\ ref_name' = Strip(git.name_rev)
            /\ gbn_branch_name' = IF HasRefPrefix(ref_name')
                                  THEN Join(StripRefPrefix(ref_name'))
                                  ELSE gbn_branch_name
            /\ UNCHANGED <<stdout, stderr, exception, exit_code>>
    /\ UNCHANGED <<inputs, globals, allow_patterns, deny_patterns,
                   branch_name, re_calls>>

\* get_branch_name(), lines 69-71, its return to main(), line 116, and the
\* handler of main(), lines 117-119
CheckName ==
    /\ pc = "check_name"
    /\ IF gbn_branch_name = Unbound
       THEN /\ Crash("UnboundLocalError")
            /\ UNCHANGED <<branch_name, stdout>>
       ELSE IF gbn_branch_name = <<>>
       THEN IF ref_name = Unbound
            THEN /\ Crash("UnboundLocalError")
                 /\ UNCHANGED <<branch_name, stdout>>
            ELSE /\ Return(Message("cannot_analyze", ref_name, <<>>), 1)
                 /\ UNCHANGED branch_name
       ELSE /\ pc' = "check_allowed"
            /\ branch_name' = gbn_branch_name
            /\ UNCHANGED <<stdout, stderr, exception, exit_code>>
    /\ UNCHANGED <<inputs, globals, allow_patterns, deny_patterns,
                   gbn_branch_name, ref_name, git_calls, re_calls>>

Tagged(list, patterns) == [i \in DOMAIN patterns |-> <<list, patterns[i]>>]

\* variant of CheckAllowed: the deny list is evaluated first
CheckAllowedDenyFirst ==
    /\ pc = "check_allowed"
    /\ LET any == AnyMatch(allow_patterns, branch_name)
           deny == AnyMatch(deny_patterns, branch_name)
       IN IF deny.result = "true"
          THEN /\ re_calls' = re_calls \o Tagged("deny", deny.calls)
               /\ Return(Message("denied", branch_name, deny_patterns), 1)
          ELSE /\ re_calls' = re_calls \o Tagged("allow", any.calls)
               /\ IF any.result = "error"
                  THEN /\ Crash("re.error")
                       /\ UNCHANGED stdout
                  ELSE IF any.result = "false"
                  THEN Return(Message("not_allowed", branch_name,
                                      allow_patterns), 1)
                  ELSE /\ pc' = "check_denied"
                       /\ UNCHANGED <<stdout, stderr, exception, exit_code>>
    /\ UNCHANGED <<inputs, globals, allow_patterns, deny_patterns,
                   branch_name, gbn_branch_name, ref_name, git_calls>>

\* main(), lines 121-124
CheckAllowed ==
    /\ pc = "check_allowed"
    /\ LET any == AnyMatch(allow_patterns, branch_name)
       IN /\ re_calls' = re_calls \o Tagged("allow", any.calls)
          /\ IF any.result = "error"
             THEN /\ Crash("re.error")
                  /\ UNCHANGED stdout
             ELSE IF any.result = "false"
             THEN Return(Message("not_allowed", branch_name, allow_patterns), 1)
             ELSE /\ pc' = "check_denied"
                  /\ UNCHANGED <<stdout, stderr, exception, exit_code>>
    /\ UNCHANGED <<inputs, globals, allow_patterns, deny_patterns,
                   branch_name, gbn_branch_name, ref_name, git_calls>>

\* main(), lines 125-130
CheckDenied ==
    /\ pc = "check_denied"
    /\ LET any == AnyMatch(deny_patterns, branch_name)
       IN /\ re_calls' = re_calls \o Tagged("deny", any.calls)
          /\ IF any.result = "error"
             THEN /\ Crash("re.error")
                  /\ UNCHANGED stdout
             ELSE IF any.result = "true"
             THEN Return(Message("denied", branch_name, deny_patterns), 1)
             ELSE Return(Message("valid", branch_name, <<>>), 0)
    /\ UNCHANGED <<inputs, globals, allow_patterns, deny_patterns,
                   branch_name, gbn_branch_name, ref_name, git_calls>>

Next ==
    \/ ParseArgs
    \/ GetForgeBranch
    \/ SymbolicRef
    \/ NameRev
    \/ CheckName
    \/ CheckAllowed
    \/ CheckDenied

Spec == Init /\ [][Next]_vars

TypeOK ==
    /\ pc \in {"parse_args", "get_forge_branch", "symbolic_ref", "name_rev",
               "check_name", "check_allowed", "check_denied", "done"}
    /\ exit_code \in {Running, 0, 1, 2}
    /\ (pc = "done") = (exit_code # Running)

------------------------------------------------------------------------------
(* The matcher and reporter of main(), lines 121-130, as a function of the *)
(* resolved name and the two lists: how the run ends.                      *)

Outcome(name, allow, deny) ==
    LET a == AnyMatch(allow, name)
        d == AnyMatch(deny, name)
    IN IF a.result = "error"
       THEN [verdict |-> "re.error", exit |-> 1]
       ELSE IF a.result = "false"
       THEN [verdict |-> "not_allowed", exit |-> 1]
       ELSE IF d.result = "error"
       THEN [verdict |-> "re.error", exit |-> 1]
       ELSE IF d.result = "true"
       THEN [verdict |-> "denied", exit |-> 1]
       ELSE [verdict |-> "valid", exit |-> 0]

\* how the run in the current state ended
Ended ==
    [verdict |-> IF exception # "none" THEN exception
                 ELSE IF stdout # <<>> THEN stdout[Len(stdout)].kind
                 ELSE "usage",
     exit |-> exit_code]

------------------------------------------------------------------------------
(* A second specification: the detached-HEAD fallback on every name-rev    *)
(* output of at most MaxRefLen tokens; defaults on the command line and no *)
(* CI variable.                                                            *)

RefTokens == {"refs", "remotes", "origin", "main", Slash}

InitNameRev ==
    /\ argv = <<>>
    /\ environ = [v \in CiVarNames |-> None]
    /\ git \in {[present |-> TRUE, symbolic_ref |-> CalledProcessError,
                 name_rev |-> Append(o, NL)] :
                    o \in SeqsUpTo(RefTokens, MaxRefLen)}
    /\ InitLocals

SpecNameRev == InitNameRev /\ [][Next]_vars

------------------------------------------------------------------------------
(* Vocabulary of the properties.                                           *)

Done == pc = "done"

\* the command line was accepted: the two pattern lists are chosen
ParsedOk == pc # "parse_args" /\ exit_code # 2

\* the resolver produced a name and the matcher was entered
ResolutionSucceeded ==
    \/ pc \in {"check_allowed", "check_denied"}
    \/ /\ Done
       /\ \/ exception = "re.error"
          \/ /\ exception = "none"
             /\ stdout # <<>>
             /\ stdout[1].kind \in {"valid", "not_allowed", "denied"}

Elements(q) == {q[i] : i \in DOMAIN q}

\* the string starts with a match of the (valid) pattern
StartsWithMatch(pattern, string) ==
    \E k \in 0..Len(string) : k \in Ends(ReCompile(pattern), string, {0})

\* the pattern matches the string up to its end
MatchesWhole(pattern, string) ==
    Len(string) \in Ends(ReCompile(pattern), string, {0})

IsSet(v) == environ[v] # None /\ environ[v] # <<>>
AnyCiSet == \E v \in CiVarNames : IsSet(v)

FirstNonEmptyCi ==
    IF IsSet("GITHUB_HEAD_REF") THEN environ["GITHUB_HEAD_REF"]
    ELSE IF IsSet("CI_MERGE_REQUEST_SOURCE_BRANCH_NAME")
    THEN environ["CI_MERGE_REQUEST_SOURCE_BRANCH_NAME"]
    ELSE environ["BITBUCKET_BRANCH"]

\* the values that follow one of the flags on the command line, in order
Supplied(flags) ==
    LET pos == {i \in DOMAIN argv : i % 2 = 1 /\ argv[i] \in flags}
    IN [k \in 1..Cardinality(pos) |->
          argv[(CHOOSE i \in pos : Cardinality({j \in pos : j < i}) = k - 1) + 1]]

\* the positions of the separators of a string
SlashPositions(s) == {i \in DOMAIN s : s[i] = Slash}

\* what follows the second separator of a string; empty when there is none
AfterSecondSlash(s) ==
    IF Cardinality(SlashPositions(s)) < 2 THEN <<>>
    ELSE LET j == CHOOSE k \in SlashPositions(s) :
                     Cardinality({i \in SlashPositions(s) : i < k}) = 1
         IN SubSeq(s, j + 1, Len(s))

RemoteNames == {"origin"}

\* the name-rev fallback has run and its output carries one of the prefixes
PrefixStripped ==
    /\ pc = "check_name"
    /\ ref_name # Unbound
    /\ HasRefPrefix(ref_name)

\* the ref is refs/remotes/<remote>/<branch> and the resolved name still
\* starts with <remote>/
RemoteNameLeft ==
    \E r \in RemoteNames :
        /\ StartsWith(ref_name, <<"refs", Slash, "remotes", Slash, r, Slash>>)
        /\ StartsWith(gbn_branch_name, <<r, Slash>>)
        /\ Len(gbn_branch_name) > 2
        /\ gbn_branch_name[3] # Slash

Reorderings(q) ==
    {[i \in DOMAIN q |-> q[f[i]]] :
        f \in {g \in [DOMAIN q -> DOMAIN q] :
                  \A i, j \in DOMAIN q : g[i] = g[j] => i = j}}

------------------------------------------------------------------------------
(* Properties.                                                             *)

\* C1: when resolution succeeded and every pattern of both lists is a valid
\* regex, the run returns 0 with the message "valid" naming the branch if and
\* only if the name starts with a match of some allow pattern and of no deny
\* pattern; otherwise it returns 1.
C1_ValidIffAllowedAndNotDenied ==
    (/\ Done
     /\ ResolutionSucceeded
     /\ \A p \in Elements(allow_patterns) \cup Elements(deny_patterns) :
            IsValidRegex(p))
    => LET ok == /\ \E p \in Elements(allow_patterns) :
                        StartsWithMatch(p, branch_name)
                 /\ \A p \in Elements(deny_patterns) :
                        ~StartsWithMatch(p, branch_name)
       IN /\ exception = "none"
          /\ exit_code = IF ok THEN 0 ELSE 1
          /\ ok <=> stdout = <<Message("valid", branch_name, <<>>)>>

\* C1 witness: a run returned 0 on a name that an allow pattern matches only
\* as a proper prefix, with a deny list that does not match.
C1_Witness ==
    /\ Done
    /\ exit_code = 0
    /\ deny_patterns # <<>>
    /\ \A p \in Elements(allow_patterns) \cup Elements(deny_patterns) :
            IsValidRegex(p)
    /\ \A p \in Elements(allow_patterns) :
            StartsWithMatch(p, branch_name) /\ ~MatchesWhole(p, branch_name)

\* C2: when the resolved name matches none of the (valid) allow patterns the
\* run prints the name with the whole allow list and returns 1, whatever the
\* deny list holds, and no deny pattern is handed to re.match.
C2_NotAllowedFirst ==
    (/\ ResolutionSucceeded
     /\ \A p \in Elements(allow_patterns) :
            IsValidRegex(p) /\ ~StartsWithMatch(p, branch_name))
    => /\ pc # "check_denied"
       /\ \A i \in DOMAIN re_calls : re_calls[i][1] # "deny"
       /\ Done =>
            /\ stdout = <<Message("not_allowed", branch_name, allow_patterns)>>
            /\ exit_code = 1
            /\ exception = "none"

\* C2 witness: a run ended NotAllowed although a deny pattern matches the
\* name too.
C2_Witness ==
    /\ Done
    /\ stdout = <<Message("not_allowed", branch_name, allow_patterns)>>
    /\ \E p \in Elements(deny_patterns) :
            IsValidRegex(p) /\ StartsWithMatch(p, branch_name)

\* C3: when a CI variable is set and not empty, git is never invoked, the
\* name handed to the matcher is the value of the first such variable in the
\* order GITHUB_HEAD_REF, CI_MERGE_REQUEST_SOURCE_BRANCH_NAME,
\* BITBUCKET_BRANCH, and the run ends as the matcher decides on that name;
\* when none is set, git is invoked before anything else is decided.
C3_CiTakesPrecedence ==
    /\ AnyCiSet =>
         /\ git_calls = <<>>
         /\ pc \notin {"symbolic_ref", "name_rev", "check_name"}
         /\ (ParsedOk /\ pc # "get_forge_branch") =>
                branch_name = FirstNonEmptyCi
         /\ (ParsedOk /\ Done) =>
                Ended = Outcome(FirstNonEmptyCi, allow_patterns, deny_patterns)
    /\ (~AnyCiSet /\ ParsedOk
                  /\ pc \notin {"get_forge_branch", "symbolic_ref"}) =>
         git_calls # <<>>

\* C3 witness: a run ended Valid on the value of the second variable, the
\* first being empty and the third set to another name, without a git
\* executable.
C3_Witness ==
    /\ Done
    /\ exit_code = 0
    /\ ~git.present
    /\ environ["GITHUB_HEAD_REF"] = <<>>
    /\ IsSet("CI_MERGE_REQUEST_SOURCE_BRANCH_NAME")
    /\ IsSet("BITBUCKET_BRANCH")
    /\ branch_name = environ["CI_MERGE_REQUEST_SOURCE_BRANCH_NAME"]
    /\ branch_name # environ["BITBUCKET_BRANCH"]

\* C4 (as claimed): after the fallback, a name-rev output with a
\* remotes/<remote>/ or refs/<type>/ prefix is reduced to what follows the
\* prefix, and the result never still starts with the remote name of the ref.
C4_NoRemoteOrTypeLeft ==
    PrefixStripped =>
        /\ gbn_branch_name = AfterSecondSlash(ref_name)
        /\ ~RemoteNameLeft

\* C4 (amended): after the fallback, a name-rev output that starts with
\* remotes/ or refs/ is reduced to exactly what follows its second '/', every
\* later segment unchanged (empty when there is no second '/'); of the full
\* form refs/remotes/<remote>/<branch> it leaves <remote>/<branch>.
C4_StripsFirstTwoSegments ==
    PrefixStripped =>
        /\ ref_name[1] \in {"remotes", "refs"}
        /\ gbn_branch_name = AfterSecondSlash(ref_name)
        /\ \A r \in RemoteNames :
              StartsWith(ref_name, <<"refs", Slash, "remotes", Slash, r, Slash>>)
                 => StartsWith(gbn_branch_name, <<r, Slash>>)

\* C4 witness: remotes/origin/origin/main was reduced to origin/main, a name
\* of more than one segment.
C4_Witness ==
    /\ pc = "check_name"
    /\ ref_name = <<"remotes", Slash, "origin", Slash, "origin", Slash, "main">>
    /\ gbn_branch_name = <<"origin", Slash, "main">>

\* C5: every run whose command line was accepted and whose patterns are
\* valid ends with exactly one printed message, no uncaught exception and
\* exit code 0 or 1.
C5_FailuresAreReported ==
    (/\ Done
     /\ ParsedOk
     /\ \A p \in Elements(allow_patterns) \cup Elements(deny_patterns) :
            IsValidRegex(p))
    => /\ exception = "none"
       /\ stderr = <<>>
       /\ Len(stdout) = 1
       /\ exit_code \in {0, 1}

\* no resolver step can produce a non-empty name, with git present
NoNameToResolve ==
    /\ ~AnyCiSet
    /\ git.present
    /\ IF git.symbolic_ref # CalledProcessError
       THEN Strip(git.symbolic_ref) = <<>>
       ELSE \/ git.name_rev = CalledProcessError
            \/ Strip(git.name_rev) = <<>>
            \/ /\ HasRefPrefix(Strip(git.name_rev))
               /\ AfterSecondSlash(Strip(git.name_rev)) = <<>>

\* C6: when no resolver step produces a non-empty name, the run prints a
\* diagnostic and returns 1; the matcher never sees an empty name.
C6_EmptyNameIsResolutionFailed ==
    /\ pc \in {"check_allowed", "check_denied"} =>
          branch_name \notin {<<>>, Unbound}
    /\ (Done /\ ParsedOk /\ NoNameToResolve) =>
          /\ exception = "none"
          /\ exit_code = 1
          /\ Len(stdout) = 1
          /\ stdout[1].kind \in {"not_a_repository", "cannot_analyze"}

\* C7: a run that resolved a name and whose allow or deny list holds an
\* invalid regex ends with a non-zero exit code and without having invoked
\* git.
C7_InvalidRegexFailsFast ==
    (/\ Done
     /\ ParsedOk
     /\ ResolutionSucceeded
     /\ \E p \in Elements(allow_patterns) \cup Elements(deny_patterns) :
            ~IsValidRegex(p))
    => /\ exit_code # 0
       /\ git_calls = <<>>

\* C8: once the command line is accepted, the allow list is the built-in
\* default list when no --allow/-a was given and otherwise exactly the
\* supplied patterns in order; the deny list is empty when no --deny/-d was
\* given and otherwise exactly the supplied patterns; the default lists keep
\* their values.
C8_PatternSetSelection ==
    /\ DEFAULT_ALLOWED_PATTERNS = <<PatConventional, PatTrunk>>
    /\ DEFAULT_DENIED_PATTERNS = <<>>
    /\ ParsedOk =>
         /\ allow_patterns =
               IF Supplied({"-a", "--allow"}) = <<>>
               THEN <<PatConventional, PatTrunk>>
               ELSE Supplied({"-a", "--allow"})
         /\ deny_patterns = Supplied({"-d", "--deny"})

\* C8 witness: a finished run with two different --allow options and no
\* --deny option.
C8_Witness ==
    /\ Done
    /\ ParsedOk
    /\ Len(Supplied({"-a", "--allow"})) = 2
    /\ Supplied({"-a", "--allow"})[1] # Supplied({"-a", "--allow"})[2]
    /\ Supplied({"-d", "--deny"}) = <<>>
    /\ allow_patterns = Supplied({"-a", "--allow"})

\* C9: on a detached HEAD (symbolic-ref fails, name-rev prints a non-empty
\* name, with or without prefix), the call of get_branch_name() either
\* returns a non-empty name to the matcher or ends on the RuntimeError
\* diagnostic with exit code 1; no other exception leaves the call.
C9_NameOrRuntimeError ==
    (/\ git_calls # <<>>
     /\ git.present
     /\ git.symbolic_ref = CalledProcessError
     /\ git.name_rev # CalledProcessError
     /\ Strip(git.name_rev) # <<>>)
    => /\ pc \in {"check_allowed", "check_denied"} =>
            branch_name \notin {<<>>, Unbound}
       /\ Done =>
            \/ ResolutionSucceeded /\ branch_name \notin {<<>>, Unbound}
            \/ /\ exception = "none"
               /\ exit_code = 1
               /\ stdout = <<Message("cannot_analyze", ref_name, <<>>)>>

\* C10: a run that reached the matcher ends with the same verdict and exit
\* code as it would with any permutation of its allow list and of its deny
\* list.
C10_OrderIrrelevant ==
    (Done /\ ResolutionSucceeded) =>
        \A a \in Reorderings(allow_patterns), d \in Reorderings(deny_patterns) :
            Outcome(branch_name, a, d) = Ended

\* the function Outcome and the actions CheckAllowed, CheckDenied agree
OutcomeAgrees ==
    (Done /\ ResolutionSucceeded) =>
        Outcome(branch_name, allow_patterns, deny_patterns) = Ended

====
